---- MODULE Spec2Model ----
(***************************************************************************)
(* Model of the recommendation pipeline of src/app.py: the text query      *)
(* (get_recommendations), the visual query (recommend_similar_images), the *)
(* compatibility judgment (get_combination_feedback), the complementary    *)
(* product filter (recommend_complementary_products) and the three modes   *)
(* of main that call them.                                                 *)
(*                                                                         *)
(* Python strings are TLA+ strings; str.lower() and the substring test     *)
(* (kw in text) are given by tables over the strings the model uses.  A    *)
(* data frame is the sequence of the positions (1-based) of its rows in    *)
(* the catalog.  The streamed generative response is a sequence of         *)
(* fragments, each a sequence of lexical tokens.                           *)
(***************************************************************************)
EXTENDS Integers, Sequences, FiniteSets, TLC

VARIABLES
    data,         \* the catalog returned by load_data (read-only after load)
    image_paths,  \* the rows of the precomputed embedding table (load_models)
    op,           \* "idle", or the mode of main / the function that has run
    outfit,       \* the compatibility judgment of the last run
    complement,   \* the locals and result of recommend_complementary_products
    text,         \* the text query of the last run
    visual,       \* the visual query of the last run
    raised        \* "" or the step whose exception left the operation

vars == <<data, image_paths, op, outfit, complement, text, visual, raised>>

-----------------------------------------------------------------------------
(* Bounds of the model *)

MaxRows == 3        \* rows of a short catalog and of the embedding table
MaxScore == 2       \* similarity levels are 0..MaxScore
MaxExtra == 1       \* a long catalog has TopK+1 .. TopK+MaxExtra rows
MaxFragments == 2   \* fragments a streamed response arrives in
MaxTopN == 4        \* top_n of a direct visual query is 1..MaxTopN

(* Program constants *)

TopK == 50          \* similarities.argsort()[-50:]
ResultCap == 300    \* filtered_data[:300]
DefaultTopN == 16   \* recommend_similar_images(..., top_n=16)

None == "None"      \* Python's None where a string is expected

-----------------------------------------------------------------------------
(* Sequences *)

Range(s) == {s[i] : i \in 1..Len(s)}

Reverse(s) == [i \in 1..Len(s) |-> s[Len(s) + 1 - i]]

\* s[:k]
Head_k(s, k) == SubSeq(s, 1, IF k < Len(s) THEN k ELSE Len(s))

\* s[-k:]
Last_k(s, k) == SubSeq(s, IF k < Len(s) THEN Len(s) - k + 1 ELSE 1, Len(s))

RECURSIVE Concat(_)
\* ''.join(fragments)
Concat(ss) == IF ss = <<>> THEN <<>> ELSE Head(ss) \o Concat(Tail(ss))

RECURSIVE Ascending(_)
\* the members of a set of positions in ascending order (a boolean-mask selection
\* keeps the rows in catalog order)
Ascending(S) ==
    IF S = {} THEN <<>>
    ELSE LET m == CHOOSE x \in S : \A y \in S : x <= y
         IN <<m>> \o Ascending(S \ {m})

\* all orderings of 1..n
Orderings(n) == {p \in [1..n -> 1..n] : \A i, j \in 1..n : i # j => p[i] # p[j]}

-----------------------------------------------------------------------------
(* Strings: str.lower() and the substring test *)

LowerTable ==
    [s \in {"Red", "Formal", "Topwear", "Women", "Yes", "Unknown",
            "Blue and Casual pair well", "Red, white and black suit a party or formal look",
            "The colours go well together", "Nice Blue tones", "Good for Casual wear",
            "A tired Formal look", "No reason provided"} |->
        CASE s = "Red" -> "red"
          [] s = "Formal" -> "formal"
          [] s = "Topwear" -> "topwear"
          [] s = "Women" -> "women"
          [] s = "Yes" -> "yes"
          [] s = "Unknown" -> "unknown"
          [] s = "Blue and Casual pair well" -> "blue and casual pair well"
          [] s = "Red, white and black suit a party or formal look"
                -> "red, white and black suit a party or formal look"
          [] s = "The colours go well together" -> "the colours go well together"
          [] s = "Nice Blue tones" -> "nice blue tones"
          [] s = "Good for Casual wear" -> "good for casual wear"
          [] s = "A tired Formal look" -> "a tired formal look"
          [] s = "No reason provided" -> "no reason provided"]

\* s.lower(); a string outside the table has no upper-case letter
Lower(s) == IF s \in DOMAIN LowerTable THEN LowerTable[s] ELSE s

\* the keywords of the two lists that occur in a lower-cased text as substrings
\* ("tired" holds "red")
SubstringTable ==
    [s \in {"blue and casual pair well", "red, white and black suit a party or formal look",
            "the colours go well together", "nice blue tones", "good for casual wear",
            "a tired formal look", "no reason provided"} |->
        CASE s = "blue and casual pair well" -> {"blue", "casual"}
          [] s = "red, white and black suit a party or formal look"
                -> {"red", "white", "black", "party", "formal"}
          [] s = "the colours go well together" -> {}
          [] s = "nice blue tones" -> {"blue"}
          [] s = "good for casual wear" -> {"casual"}
          [] s = "a tired formal look" -> {"red", "formal"}
          [] s = "no reason provided" -> {}]

\* kw in s
Contains(s, kw) == IF s \in DOMAIN SubstringTable THEN kw \in SubstringTable[s] ELSE s = kw

\* next((k for k in keywords if k in s), None)
FirstKeyword(keywords, s) ==
    LET hits == {i \in 1..Len(keywords) : Contains(s, keywords[i])}
    IN IF hits = {} THEN None
       ELSE keywords[CHOOSE i \in hits : \A j \in hits : i <= j]

color_keywords == <<"blue", "white", "black", "red">>
usage_keywords == <<"casual", "formal", "party">>

-----------------------------------------------------------------------------
(* The catalog *)

Product(id, colour, usage, sub, gender) ==
    [id |-> id, baseColour |-> colour, usage |-> usage, subCategory |-> sub, gender |-> gender]

ProdA == Product(101, "blue", "casual", "topwear", "men")
ProdB == Product(102, "blue", "casual", "topwear", "men")
ProdC == Product(103, "blue", "casual", "bottomwear", "men")
ProdD == Product(104, "Red", "Formal", "Topwear", "Women")

Pool == {ProdA, ProdB, ProdC, ProdD}

\* catalogs of 2..MaxRows distinct products, in every row order
Catalogs ==
    UNION {{c \in [1..n -> Pool] : \A i, j \in 1..n : i # j => c[i] # c[j]} : n \in 2..MaxRows}

\* data[data['id'] == pid]: the positions of the rows with that identifier
RowsWithId(d, pid) == Ascending({i \in 1..Len(d) : d[i].id = pid})

\* data[data['id'].isin(pids)]: rows in catalog order
RowsWithIdIn(d, pids) == Ascending({i \in 1..Len(d) : d[i].id \in Range(pids)})

-----------------------------------------------------------------------------
(* numpy.argsort and the two similarity queries *)

\* i is sorted before j: by score, and among equal scores by tie, the order the
\* sort happens to leave equal elements in
Before(a, tie, i, j) == a[i] < a[j] \/ (a[i] = a[j] /\ tie[i] < tie[j])

RECURSIVE Ranks(_, _, _)
\* the place of each of the first k elements in the sorted order
Ranks(a, tie, k) ==
    IF k = 0 THEN <<>>
    ELSE Append(Ranks(a, tie, k - 1),
                1 + Cardinality({j \in 1..Len(a) : Before(a, tie, j, k)}))

\* a.argsort(): the positions of a in ascending order of score.  The default sort
\* kind is not stable: the order of equal scores is any order tie.
ArgSort(a, tie) ==
    LET rank == Ranks(a, tie, Len(a))
    IN [k \in 1..Len(a) |-> CHOOSE i \in 1..Len(a) : rank[i] = k]

\* as get_recommendations, slicing the first 50 of the ascending order
get_recommendations_head(similarities, tie) ==
    Reverse(Head_k(ArgSort(similarities, tie), TopK))

\* lines 67-72, from the similarities of line 69 on: the returned frame is
\* data.iloc[indices]
get_recommendations(similarities, tie) ==
    Reverse(Last_k(ArgSort(similarities, tie), TopK))

\* as recommend_similar_images, without the reversal
recommend_similar_images_ascending(scores, tie, paths, top_n) ==
    LET recommended_indices == Head_k(ArgSort(scores, tie), top_n)
    IN [k \in 1..Len(recommended_indices) |->
            <<paths[recommended_indices[k]], scores[recommended_indices[k]]>>]

\* lines 82-86, from the scores of line 83 on
recommend_similar_images(scores, tie, paths, top_n) ==
    LET recommended_indices == Head_k(Reverse(ArgSort(scores, tie)), top_n)
    IN [k \in 1..Len(recommended_indices) |->
            <<paths[recommended_indices[k]], scores[recommended_indices[k]]>>]

-----------------------------------------------------------------------------
(* The streamed response: lexical tokens, fence stripping, json.loads *)

Tok(t, v) == [t |-> t, v |-> v]

LBrace == Tok("{", "")
RBrace == Tok("}", "")
LBracket == Tok("[", "")
RBracket == Tok("]", "")
Colon == Tok(":", "")
Comma == Tok(",", "")
Space == Tok("ws", " ")
FenceJson == Tok("fence", "json")   \* the opening fence with its language tag
Fence == Tok("fence", "")           \* a bare fence
Str(s) == Tok("str", s)      \* a JSON string literal
Num(s) == Tok("num", s)      \* a JSON number
Word(s) == Tok("word", s)    \* bare prose, no JSON token

\* line 104: both fence forms are replaced by the empty string
StripFences(toks) == SelectSeq(toks, LAMBDA k : k.t # "fence")

RECURSIVE LStrip(_)
LStrip(toks) == IF toks # <<>> /\ Head(toks).t = "ws" THEN LStrip(Tail(toks)) ELSE toks

\* .strip()
Strip(toks) == Reverse(LStrip(Reverse(LStrip(toks))))

JsonError == [ok |-> FALSE, isObject |-> FALSE, obj |-> <<>>]
JsonValue == [ok |-> TRUE, isObject |-> FALSE, obj |-> <<>>]
JsonObject(members) == [ok |-> TRUE, isObject |-> TRUE, obj |-> members]

IsScalar(k) == k.t \in {"str", "num"}

RECURSIVE ParseMembers(_, _)
\* the members of an object after its "{" or after a ","; a repeated key keeps its
\* last value, as a Python dict does
ParseMembers(toks, acc) ==
    IF Len(toks) >= 4 /\ toks[1].t = "str" /\ toks[2].t = ":" /\ IsScalar(toks[3])
    THEN LET key == toks[1].v
             acc2 == [k \in DOMAIN acc \cup {key} |-> IF k = key THEN toks[3].v ELSE acc[k]]
         IN IF toks[4].t = "}"
            THEN IF Len(toks) = 4 THEN JsonObject(acc2) ELSE JsonError
            ELSE IF toks[4].t = ","
            THEN ParseMembers(SubSeq(toks, 5, Len(toks)), acc2)
            ELSE JsonError
    ELSE JsonError

\* json.loads: JSON ignores white space between tokens
json_loads(toks) ==
    LET s == SelectSeq(toks, LAMBDA k : k.t # "ws")
    IN IF s = <<>> THEN JsonError
       ELSE IF Len(s) = 1 /\ IsScalar(s[1]) THEN JsonValue
       ELSE IF s[1].t = "["
       THEN IF \/ Len(s) = 2 /\ s[2].t = "]"
               \/ Len(s) = 3 /\ IsScalar(s[2]) /\ s[3].t = "]"
            THEN JsonValue ELSE JsonError
       ELSE IF s[1].t = "{"
       THEN IF Len(s) = 2 /\ s[2].t = "}" THEN JsonObject([k \in {} |-> ""])
            ELSE ParseMembers(Tail(s), [k \in {} |-> ""])
       ELSE JsonError

\* dict.get(key, default)
Get(obj, key, default) == IF key \in DOMAIN obj THEN obj[key] ELSE default

Verdict(decision, reason) == [decision |-> decision, reason |-> reason]

NoVerdict == Verdict(None, None)

Returned(verdict) == [raised |-> "", verdict |-> verdict]
Raised(step) == [raised |-> step, verdict |-> NoVerdict]

\* as ParseResponse, with a handler for the decoder's error only
ParseResponseDecodeErrorOnly(all_responses) ==
    LET response_json == json_loads(Strip(StripFences(Concat(all_responses))))
    IN IF ~response_json.ok THEN Returned(Verdict("Unknown", "Response parsing error"))
       ELSE IF ~response_json.isObject THEN Raised("parse")
       ELSE Returned(Verdict(Get(response_json.obj, "decision", "Unknown"),
                             Get(response_json.obj, "reason", "No reason provided")))

\* lines 102-112: the try block and its handler (except Exception).  A decoded value
\* that is no object has no .get: the AttributeError is caught like the decoder's
\* error.
ParseResponse(all_responses) ==
    LET concatenated_response == Concat(all_responses)
        cleaned_response == Strip(StripFences(concatenated_response))
        response_json == json_loads(cleaned_response)
    IN IF response_json.ok /\ response_json.isObject
       THEN Returned(Verdict(Get(response_json.obj, "decision", "Unknown"),
                             Get(response_json.obj, "reason", "No reason provided")))
       ELSE Returned(Verdict("Unknown", "Response parsing error"))

\* get_combination_feedback: missing are the identifiers whose image file cannot
\* be opened, gen is what the generative call does.  The image loads (line 90), the
\* call (line 99) and the reading of the fragments (line 100) stand outside the try
\* block.
get_combination_feedback(user_selected_product_ids, d, missing, gen) ==
    IF \E i \in 1..Len(user_selected_product_ids) :
          \/ RowsWithId(d, user_selected_product_ids[i]) = <<>>
          \/ user_selected_product_ids[i] \in missing
    THEN Raised("image")
    ELSE IF ~gen.call_ok THEN Raised("generate")
    ELSE IF ~gen.read_ok THEN Raised("stream")
    ELSE ParseResponse(gen.fragments)

-----------------------------------------------------------------------------
(* recommend_complementary_products *)

\* as IsYes, comparing without regard to case
IsYesAnyCase(decision) == Lower(decision) = "yes"

\* line 124
IsYes(decision) == decision = "yes"

\* as SelectedDetails, taking the row of the identifier the user picked first
SelectedDetailsFirstPicked(d, user_selected_product_ids) ==
    Head(RowsWithId(d, user_selected_product_ids[1]))

\* line 138: data[data['id'].isin(ids)].iloc[0], the first selected row in catalog
\* order
SelectedDetails(d, user_selected_product_ids) ==
    Head(RowsWithIdIn(d, user_selected_product_ids))

\* as UseExtracted, content with one of the two values
UseExtractedEither(extracted_color, extracted_usage) ==
    extracted_color # None \/ extracted_usage # None

\* line 142: both values are truthy
UseExtracted(extracted_color, extracted_usage) ==
    extracted_color # None /\ extracted_usage # None

\* lines 143-146
ExtractedFilter(d, extracted_color, extracted_usage, selected_gender, selected_details) ==
    Ascending({i \in 1..Len(d) :
        /\ Lower(d[i].baseColour) = extracted_color
        /\ Lower(d[i].usage) = extracted_usage
        /\ Lower(d[i].gender) = selected_gender
        /\ Lower(d[i].subCategory) = Lower(d[selected_details].subCategory)})

\* lines 149-155: selected_gender is the lower-cased gender of line 139
FallbackFilter(d, selected_gender, selected_details) ==
    Ascending({i \in 1..Len(d) :
        /\ d[i].baseColour = d[selected_details].baseColour
        /\ d[i].usage = d[selected_details].usage
        /\ d[i].gender = selected_gender
        /\ d[i].subCategory = d[selected_details].subCategory})

NoComplement ==
    [called |-> FALSE, ids |-> <<>>, decision |-> None, reason |-> None, branch |-> "none",
     extracted_color |-> None, extracted_usage |-> None, selected_details |-> 0,
     similar_products |-> <<>>, columns_read |-> {}]

\* lines 123-159; columns_read are the catalog columns the call has read
recommend_complementary_products(user_selected_product_ids, decision, reason, d) ==
    IF IsYes(decision)
    THEN LET ai_feedback == Lower(reason)
             extracted_color == FirstKeyword(color_keywords, ai_feedback)
             extracted_usage == FirstKeyword(usage_keywords, ai_feedback)
             selected_details == SelectedDetails(d, user_selected_product_ids)
             selected_gender == Lower(d[selected_details].gender)
             extracted == UseExtracted(extracted_color, extracted_usage)
         IN [called |-> TRUE, ids |-> user_selected_product_ids,
             decision |-> decision, reason |-> reason,
             branch |-> IF extracted THEN "extracted" ELSE "fallback",
             extracted_color |-> extracted_color, extracted_usage |-> extracted_usage,
             selected_details |-> selected_details,
             similar_products |->
                 IF extracted
                 THEN ExtractedFilter(d, extracted_color, extracted_usage,
                                      selected_gender, selected_details)
                 ELSE FallbackFilter(d, selected_gender, selected_details),
             columns_read |-> {"id", "filename", "gender", "baseColour", "usage", "subCategory"}]
    ELSE [NoComplement EXCEPT !.called = TRUE, !.ids = user_selected_product_ids,
                              !.decision = decision, !.reason = reason, !.branch = "empty"]

-----------------------------------------------------------------------------
(* Inputs of the outfit mode *)

Rationales ==
    {"Blue and Casual pair well", "Red, white and black suit a party or formal look",
     "The colours go well together", "Nice Blue tones", "Good for Casual wear",
     "A tired Formal look"}

Decisions == {"yes", "no", "unknown", "Unknown", "Yes"}

Member(key, value) == <<Str(key), Colon, Space, Str(value)>>

Object2(k1, v1, k2, v2) == <<LBrace>> \o Member(k1, v1) \o <<Comma, Space>> \o Member(k2, v2) \o <<RBrace>>

Payload(kind, decision, reason, toks) ==
    [kind |-> kind, written |-> Verdict(decision, reason), toks |-> toks]

\* response texts, each with the reader's description of it: its kind and the
\* decision and reason written in it (None when absent).  The description is not
\* something the program computes.
Payloads ==
    {Payload("valid", "yes", r, Object2("decision", "yes", "reason", r)) : r \in Rationales}
    \cup {Payload("valid", "no", "The colours go well together",
                  Object2("reason", "The colours go well together", "decision", "no")),
          Payload("valid", "Yes", "Blue and Casual pair well",
                  Object2("decision", "Yes", "reason", "Blue and Casual pair well")),
          Payload("nonjson", None, None, <<Word("Sure"), Space, Word("they match")>>),
          Payload("nonjson", None, None, <<>>),
          Payload("malformed", None, None, <<LBrace>> \o Member("decision", "yes")),
          Payload("malformed", None, None, <<LBrace, Str("decision"), Str("yes"), RBrace>>),
          Payload("nonobject", None, None, <<LBracket, Num("1"), RBracket>>),
          Payload("nonobject", None, None, <<Str("yes")>>),
          Payload("missingfield", None, "Nice Blue tones",
                  <<LBrace>> \o Member("reason", "Nice Blue tones") \o <<RBrace>>),
          Payload("missingfield", None, None, <<LBrace, RBrace>>),
          Payload("missingfield", "yes", None,
                  <<LBrace>> \o Member("decision", "yes") \o <<RBrace>>),
          Payload("missingfield", "no", None,
                  <<LBrace>> \o Member("decision", "no") \o <<RBrace>>)}

\* the text as the service sends it: bare, or inside a fenced block
Wrappings(toks) == {toks, <<FenceJson, Space>> \o toks \o <<Space, Fence>>}

RECURSIVE Chunks(_, _)
\* a text cut into fragments of c tokens
Chunks(toks, c) ==
    IF Len(toks) <= c THEN (IF toks = <<>> THEN <<>> ELSE <<toks>>)
    ELSE <<SubSeq(toks, 1, c)>> \o Chunks(SubSeq(toks, c + 1, Len(toks)), c)

\* a text streamed in k fragments of equal length (the last may be shorter)
Fragments(toks, k) == Chunks(toks, IF Len(toks) = 0 THEN 1 ELSE (Len(toks) + k - 1) \div k)

NoStream == [call_ok |-> FALSE, read_ok |-> FALSE, kind |-> "none", written |-> NoVerdict,
             fragments |-> <<>>]

\* what model.generate_content(contents, stream=True) and the reading of
\* response.text can do: the call raises, a fragment raises, or the text arrives
GenOutcomes ==
    {[NoStream EXCEPT !.kind = "call_error"],
     [NoStream EXCEPT !.call_ok = TRUE, !.kind = "read_error"]}
    \cup UNION {{[call_ok |-> TRUE, read_ok |-> TRUE, kind |-> p.kind,
                    written |-> p.written, fragments |-> Fragments(w, k)] :
                        w \in Wrappings(p.toks), k \in 1..MaxFragments} : p \in Payloads}

\* st.multiselect(..., max_selections=2): up to two distinct identifiers, in the
\* order the user picked them
Selections(d) ==
    LET ids == {d[i].id : i \in 1..Len(d)}
    IN {<<>>} \cup {<<a>> : a \in ids}
       \cup {s \in {<<a, b>> : a \in ids, b \in ids} : s[1] # s[2]}

Pairs(d) == {s \in Selections(d) : Len(s) = 2}

NoOutfit == [user_selected_product_ids |-> <<>>, missing |-> {}, stream |-> NoStream,
             verdict |-> NoVerdict]
NoText == [user_query |-> "", similarities |-> <<>>, gender_filter |-> {},
           recommendations |-> <<>>, results |-> <<>>]
NoVisual == [scores |-> <<>>, top_n |-> 0, recommendations |-> <<>>, error |-> FALSE]

-----------------------------------------------------------------------------
(* The outfit mode of main (lines 237-290) and a direct call of the filter *)

\* outfit.missing and outfit.stream record what the run met: the image files that
\* could not be opened and, once the call was made, what the service did
OutfitMode ==
    /\ op = "idle"
    /\ \E sel \in Selections(data), gen \in GenOutcomes :
        \E missing \in SUBSET Range(sel) :
            LET two == Len(sel) = 2
                fb == IF two THEN get_combination_feedback(sel, data, missing, gen)
                      ELSE Returned(NoVerdict)
            IN /\ outfit' = [user_selected_product_ids |-> sel,
                             missing |-> IF two THEN missing ELSE {},
                             stream |-> IF two /\ missing = {} THEN gen ELSE NoStream,
                             verdict |-> fb.verdict]
               /\ raised' = fb.raised
               \* line 273: the filter runs only for the decision 'yes'
               /\ complement' =
                    IF two /\ fb.raised = "" /\ fb.verdict.decision = "yes"
                    THEN recommend_complementary_products(sel, fb.verdict.decision,
                                                          fb.verdict.reason, data)
                    ELSE NoComplement
    /\ op' = "outfit"
    /\ UNCHANGED <<data, image_paths, text, visual>>

RecommendComplementaryCall ==
    /\ op = "idle"
    /\ \E sel \in Pairs(data), decision \in Decisions, reason \in Rationales :
        complement' = recommend_complementary_products(sel, decision, reason, data)
    /\ op' = "recommend_complementary_products"
    /\ raised' = ""
    /\ UNCHANGED <<data, image_paths, outfit, text, visual>>

\* Streamlit runs main again from the top for the next interaction
Rerun ==
    /\ op # "idle"
    /\ op' = "idle"
    /\ outfit' = NoOutfit
    /\ complement' = NoComplement
    /\ text' = NoText
    /\ visual' = NoVisual
    /\ raised' = ""
    /\ UNCHANGED <<data, image_paths>>

-----------------------------------------------------------------------------
(* Inputs of the search mode and of the image mode *)

Queries == {"", "  ", "zzz", "shirt"}

\* user_query.strip()
StripQuery(q) == IF q = "  " THEN "" ELSE q

\* the terms the fitted vectorizer knows
Vocabulary == {"shirt"}

\* catalogs for the text query: n products, men's and women's in turn
TextCatalog(n) ==
    [i \in 1..n |-> Product(200 + i, "blue", "casual", "topwear",
                            IF i % 2 = 1 THEN "men" ELSE "Women")]

TextCatalogs == {TextCatalog(n) : n \in (1..MaxRows) \cup ((TopK + 1)..(TopK + MaxExtra))}

\* score levels of n rows: every assignment for a short catalog; for a long one,
\* one level for the rows of hot and one for the others
ScoreVectors(n) ==
    IF n <= MaxRows THEN [1..n -> 0..MaxScore]
    ELSE {[i \in 1..n |-> IF i \in hot THEN hi ELSE lo] :
            hot \in SUBSET {1, 2, n}, lo \in 0..MaxScore, hi \in 0..MaxScore}

\* lines 68-69: a query with no term of the vocabulary is the zero vector, and its
\* cosine similarity with every row is 0
Similarities(q, n) ==
    IF StripQuery(q) \in Vocabulary THEN ScoreVectors(n) ELSE {[i \in 1..n |-> 0]}

\* the orders a sort may leave equal scores in: every order for a short array, the
\* ascending and the descending one for a long array
TieOrders(n) ==
    IF n <= MaxRows THEN Orderings(n)
    ELSE {[i \in 1..n |-> i], [i \in 1..n |-> n + 1 - i]}

Genders(d) == {d[i].gender : i \in 1..Len(d)}

\* the embedding table's image paths, by file number
EmbeddingTables(r) == {[i \in 1..r |-> 1000 + i], [i \in 1..r |-> 1000 + r + 1 - i]}

-----------------------------------------------------------------------------
(* The search mode of main (lines 188-233) and a direct text query *)

\* lines 201-206 and 213-218: the gender predicate on a frame (the price and size
\* predicates are further conjuncts of the same mask)
ApplyFilters(frame, d, gender_filter) ==
    SelectSeq(frame, LAMBDA i : d[i].gender \in gender_filter)

SearchMode ==
    /\ op = "idle"
    /\ \E q \in Queries, gender_filter \in SUBSET Genders(data) :
        \/ /\ StripQuery(q) = ""
           /\ text' = [user_query |-> q, similarities |-> <<>>,
                       gender_filter |-> gender_filter, recommendations |-> <<>>,
                       results |-> Head_k(ApplyFilters([i \in 1..Len(data) |-> i], data,
                                                       gender_filter), ResultCap)]
        \/ /\ StripQuery(q) # ""
           /\ \E a \in Similarities(q, Len(data)), tie \in TieOrders(Len(data)) :
                LET recommendations == get_recommendations(a, tie)
                IN text' = [user_query |-> q, similarities |-> a,
                            gender_filter |-> gender_filter,
                            recommendations |-> recommendations,
                            results |-> ApplyFilters(recommendations, data, gender_filter)]
    /\ op' = "search"
    /\ raised' = ""
    /\ UNCHANGED <<data, image_paths, outfit, complement, visual>>

GetRecommendationsCall ==
    /\ op = "idle"
    /\ \E q \in Queries :
        \E a \in Similarities(q, Len(data)), tie \in TieOrders(Len(data)) :
            text' = [NoText EXCEPT !.user_query = q, !.similarities = a,
                                   !.recommendations = get_recommendations(a, tie)]
    /\ op' = "get_recommendations"
    /\ raised' = ""
    /\ UNCHANGED <<data, image_paths, outfit, complement, visual>>

-----------------------------------------------------------------------------
(* The image mode of main (lines 296-389) and a direct visual query *)

\* where the pipeline of lines 311-386 can raise: opening or preprocessing the
\* upload, the classifier, the similarity, the catalog lookup of a recommended path
Faults == {"none", "open", "predict", "similarity", "lookup"}

ImageMode ==
    /\ op = "idle"
    /\ \E uploaded \in BOOLEAN, fault \in Faults :
        \E scores \in ScoreVectors(Len(image_paths)), tie \in TieOrders(Len(image_paths)) :
            visual' =
                IF ~uploaded THEN NoVisual
                ELSE IF fault \in {"open", "predict", "similarity"}
                THEN [NoVisual EXCEPT !.error = TRUE]
                ELSE [scores |-> scores, top_n |-> DefaultTopN,
                      recommendations |->
                          recommend_similar_images(scores, tie, image_paths, DefaultTopN),
                      error |-> fault = "lookup"]
    /\ op' = "image"
    \* line 388: every exception of the pipeline is caught and reported
    /\ raised' = ""
    /\ UNCHANGED <<data, image_paths, outfit, complement, text>>

RecommendSimilarImagesCall ==
    /\ op = "idle"
    /\ \E top_n \in 1..MaxTopN :
        \E scores \in ScoreVectors(Len(image_paths)), tie \in TieOrders(Len(image_paths)) :
            visual' = [scores |-> scores, top_n |-> top_n,
                       recommendations |->
                           recommend_similar_images(scores, tie, image_paths, top_n),
                       error |-> FALSE]
    /\ op' = "recommend_similar_images"
    /\ raised' = ""
    /\ UNCHANGED <<data, image_paths, outfit, complement, text>>

-----------------------------------------------------------------------------
(* Specifications *)

\* after load_data and load_models: nothing has run yet
Loaded ==
    /\ op = "idle"
    /\ outfit = NoOutfit
    /\ complement = NoComplement
    /\ text = NoText
    /\ visual = NoVisual
    /\ raised = ""

InitOutfit ==
    /\ data \in Catalogs
    /\ image_paths = [i \in 1..Len(data) |-> 1000 + i]
    /\ Loaded

InitText ==
    /\ data \in TextCatalogs
    /\ image_paths = [i \in 1..Len(data) |-> 1000 + i]
    /\ Loaded

InitVisual ==
    /\ \E r \in 1..MaxRows :
        /\ data = TextCatalog(r)
        /\ image_paths \in EmbeddingTables(r)
    /\ Loaded

NextOutfit == OutfitMode \/ RecommendComplementaryCall \/ Rerun

NextText == SearchMode \/ GetRecommendationsCall \/ Rerun

NextVisual == ImageMode \/ RecommendSimilarImagesCall \/ Rerun

\* the outfit mode over the short catalogs
SpecOutfit == InitOutfit /\ [][NextOutfit]_vars

\* the search mode over short and long catalogs
SpecText == InitText /\ [][NextText]_vars

\* the image mode over the embedding tables
SpecVisual == InitVisual /\ [][NextVisual]_vars

-----------------------------------------------------------------------------
(* The compatibility judgment *)

\* main has called get_combination_feedback for two selected products
Judged == op = "outfit" /\ Len(outfit.user_selected_product_ids) = 2

\* every fragment was read and the try block of lines 102-112 has run
Parsed == Judged /\ outfit.missing = {} /\ outfit.stream.read_ok

NotJson == {"nonjson", "malformed", "nonobject"}

\* C1, as claimed: whenever the fence-stripped text is not a valid structured
\* payload, the verdict is decision "unknown" with reason "parsing error" and no
\* exception is raised.
C1_InvalidPayloadGivesUnknownParsingError ==
    (Parsed /\ outfit.stream.kind # "valid") =>
        (raised = "" /\ outfit.verdict = Verdict("unknown", "parsing error"))

\* C1, amended: whenever the fence-stripped text is not a valid structured payload,
\* no exception is raised; text that is not JSON, malformed JSON and JSON that is
\* not an object give the verdict ("Unknown", "Response parsing error"); an object
\* missing a field gives "Unknown" for a missing decision and "No reason provided"
\* for a missing reason, the field that is present being returned as written.
C1_InvalidPayloadVerdict ==
    (Parsed /\ outfit.stream.kind # "valid") =>
        /\ raised = ""
        /\ outfit.stream.kind \in NotJson =>
              outfit.verdict = Verdict("Unknown", "Response parsing error")
        /\ outfit.stream.kind = "missingfield" =>
              /\ outfit.verdict.decision =
                    IF outfit.stream.written.decision = None THEN "Unknown"
                    ELSE outfit.stream.written.decision
              /\ outfit.verdict.reason =
                    IF outfit.stream.written.reason = None THEN "No reason provided"
                    ELSE outfit.stream.written.reason

\* a fenced list, streamed in two fragments, has been judged
C1_Witness ==
    /\ Parsed
    /\ outfit.stream.kind = "nonobject"
    /\ Len(outfit.stream.fragments) = 2
    /\ outfit.stream.fragments[1][1] = FenceJson
    /\ outfit.verdict = Verdict("Unknown", "Response parsing error")

\* a step before the parsing failed: an image could not be opened, the generative
\* call raised, or the reading of a fragment raised
FailedBeforeParsing ==
    Judged /\ (outfit.missing # {} \/ outfit.stream.kind \in {"call_error", "read_error"})

\* C2: in outfit mode a failure of a step before the parsing ends in an "unknown"
\* verdict, and no exception leaves get_combination_feedback or main.
C2_FailureBeforeParsingGivesUnknown ==
    FailedBeforeParsing => (raised = "" /\ Lower(outfit.verdict.decision) = "unknown")

-----------------------------------------------------------------------------
(* The complementary product filter *)

Filtered == complement.called

HasKeyword(keywords, reason) == \E i \in 1..Len(keywords) : Contains(Lower(reason), keywords[i])

\* C3: whenever the decision is not exactly "yes" the filter returns an empty
\* sequence and reads no catalog column.
C3_NotYesGivesEmpty ==
    (Filtered /\ complement.decision # "yes") =>
        (complement.similar_products = <<>> /\ complement.columns_read = {})

\* the filter was called with "Yes" and a rationale naming a colour and a usage
C3_Witness ==
    /\ op = "recommend_complementary_products"
    /\ complement.decision = "Yes"
    /\ complement.reason = "Blue and Casual pair well"
    /\ complement.similar_products = <<>>

\* C4, as claimed: with decision "yes" the fallback filter is used only when both
\* the colour and the usage extraction found no keyword, and never when one of
\* them found a keyword.
C4_FallbackOnlyWhenBothMissing ==
    (Filtered /\ complement.decision = "yes" /\ complement.branch = "fallback") =>
        (~HasKeyword(color_keywords, complement.reason)
            /\ ~HasKeyword(usage_keywords, complement.reason))

\* C4, amended: with decision "yes" the fallback filter is used exactly when the
\* colour extraction or the usage extraction (or both) found no keyword; the
\* extracted values are used only when both were found.
C4_FallbackWhenEitherMissing ==
    (Filtered /\ complement.decision = "yes") =>
        /\ complement.branch \in {"fallback", "extracted"}
        /\ complement.branch = "fallback" <=>
              (~HasKeyword(color_keywords, complement.reason)
                  \/ ~HasKeyword(usage_keywords, complement.reason))

\* the rationale named a colour and no usage, and the fallback filter ran
C4_Witness ==
    /\ Filtered
    /\ complement.decision = "yes"
    /\ complement.extracted_color = "blue"
    /\ complement.extracted_usage = None
    /\ complement.branch = "fallback"

\* C5: the gender and subcategory constraints are those of the first product in
\* the user's selection order, whatever the row order of the catalog.
C5_ReferenceIsFirstPicked ==
    (Filtered /\ complement.decision = "yes") =>
        data[complement.selected_details].id = complement.ids[1]

Scenario6 ==
    /\ Filtered
    /\ Range(data) = {ProdA, ProdB, ProdC}
    /\ complement.ids = <<ProdA.id, ProdC.id>>
    /\ complement.decision = "yes"
    /\ complement.reason = "Blue and Casual pair well"

RowsOfSubCategory(sub) == {i \in 1..Len(data) : data[i].subCategory = sub}

PositionOf(product) == CHOOSE i \in 1..Len(data) : data[i] = product

\* C6, as claimed: for the catalog {A, B, C}, the selection (A, C), decision "yes"
\* and a rationale naming "blue" and "casual", the filter returns the rows of C's
\* subcategory (bottomwear) and no topwear row.
C6_ScenarioReturnsBottomwear ==
    Scenario6 => Range(complement.similar_products) = RowsOfSubCategory("bottomwear")

\* C6, amended: in that scenario the filter returns the rows of the subcategory of
\* whichever of A and C stands first in the catalog: with A before C exactly the
\* topwear rows A and B (and not C), with C before A exactly C.
C6_ScenarioReturnsFirstRowsSubCategory ==
    Scenario6 =>
        Range(complement.similar_products) =
            IF PositionOf(ProdA) < PositionOf(ProdC)
            THEN RowsOfSubCategory("topwear")
            ELSE RowsOfSubCategory("bottomwear")

\* the scenario with the catalog in the order A, B, C: A and B are returned
C6_Witness ==
    /\ Scenario6
    /\ data = <<ProdA, ProdB, ProdC>>
    /\ complement.similar_products = <<1, 2>>

\* C10: on the fallback branch the result is exactly the rows whose raw colour,
\* usage, gender and subcategory equal the reference product's raw values, so the
\* reference product itself is always in the result.
C10_FallbackMatchesRawValues ==
    (Filtered /\ complement.branch = "fallback") =>
        LET ref == data[complement.selected_details]
        IN Range(complement.similar_products) =
              {i \in 1..Len(data) :
                  /\ data[i].baseColour = ref.baseColour
                  /\ data[i].usage = ref.usage
                  /\ data[i].gender = ref.gender
                  /\ data[i].subCategory = ref.subCategory}

-----------------------------------------------------------------------------
(* The text query *)

\* get_recommendations has run, called directly or by the search mode
Queried == op \in {"get_recommendations", "search"} /\ text.similarities # <<>>

Min(a, b) == IF a < b THEN a ELSE b

\* the catalog positions by score descending, equal scores by ascending position
RankedInCatalogOrder(a) ==
    [k \in 1..Len(a) |->
        CHOOSE i \in 1..Len(a) :
            Cardinality({j \in 1..Len(a) : a[j] > a[i] \/ (a[j] = a[i] /\ j < i)}) = k - 1]

\* C7, as claimed: get_recommendations returns exactly the first min(50, N) rows of
\* the catalog sorted by score descending with equal scores in ascending catalog
\* position.
C7_TopKTiesInCatalogOrder ==
    Queried =>
        text.recommendations =
            Head_k(RankedInCatalogOrder(text.similarities), Min(TopK, Len(data)))

\* C7, amended: get_recommendations returns exactly min(50, N) distinct rows of the
\* catalog, with scores non-increasing along the returned sequence and no omitted
\* row scoring strictly higher than a returned one; the order of rows of equal
\* score, and which of the equal rows at the cut are kept, is not fixed.
C7_TopKByScore ==
    Queried =>
        LET a == text.similarities
            rec == text.recommendations
        IN /\ Len(rec) = Min(TopK, Len(data))
           /\ Range(rec) \subseteq 1..Len(data)
           /\ Cardinality(Range(rec)) = Len(rec)
           /\ \A k \in 1..(Len(rec) - 1) : a[rec[k]] >= a[rec[k + 1]]
           /\ \A i \in (1..Len(data)) \ Range(rec) : \A k \in 1..Len(rec) : a[i] <= a[rec[k]]

\* a catalog of more than 50 rows was queried: 50 rows are returned, the first two
\* of equal score and in descending catalog position, and a row is left out
C7_Witness ==
    /\ Queried
    /\ Len(data) > TopK
    /\ Len(text.recommendations) = TopK
    /\ text.similarities[text.recommendations[1]] = text.similarities[text.recommendations[2]]
    /\ text.recommendations[1] > text.recommendations[2]
    /\ \E i \in 1..Len(data) :
          /\ i \notin Range(text.recommendations)
          /\ text.similarities[i] < text.similarities[text.recommendations[TopK]]

\* the query is empty or has no term of the vocabulary
MatchesNothing == StripQuery(text.user_query) \notin Vocabulary

\* C8: for an empty query or a query with no term of the vocabulary (every score
\* is 0) get_recommendations returns an empty result and does not raise.
C8_NoMatchGivesEmpty ==
    (Queried /\ MatchesNothing) => (text.recommendations = <<>> /\ raised = "")

-----------------------------------------------------------------------------
(* The visual query *)

RowOfPath(path) == CHOOSE i \in 1..Len(image_paths) : image_paths[i] = path

\* C9: recommend_similar_images returns exactly min(top_n, R) pairs, each for a
\* distinct row of the table, with scores non-increasing along the sequence and no
\* omitted row scoring strictly higher than a returned one.
C9_TopNRespected ==
    (op = "recommend_similar_images") =>
        LET rec == visual.recommendations
            rows == {RowOfPath(rec[k][1]) : k \in 1..Len(rec)}
        IN /\ Len(rec) = Min(visual.top_n, Len(image_paths))
           /\ \A k \in 1..Len(rec) :
                 /\ rec[k][1] \in Range(image_paths)
                 /\ rec[k][2] = visual.scores[RowOfPath(rec[k][1])]
           /\ Cardinality(rows) = Len(rec)
           /\ \A k \in 1..(Len(rec) - 1) : rec[k][2] >= rec[k + 1][2]
           /\ \A i \in (1..Len(image_paths)) \ rows :
                 \A k \in 1..Len(rec) : visual.scores[i] <= rec[k][2]

\* two of three rows were asked for; the row left out scores lowest
C9_Witness ==
    /\ op = "recommend_similar_images"
    /\ Len(image_paths) = 3
    /\ visual.top_n = 2
    /\ Len(visual.recommendations) = 2
    /\ visual.recommendations[1][2] > visual.recommendations[2][2]
    /\ \E i \in 1..3 : visual.scores[i] < visual.recommendations[2][2]

====
